---- MODULE Spec2Model ----
(***************************************************************************)
(* Pure-ALOHA queue simulation (queue_sim_api_aloha.py): packet sources,   *)
(* queued servers with a byte-limited FIFO, one shared channel that        *)
(* declares collisions, all driven by a discrete-event scheduler.          *)
(*                                                                         *)
(* The scheduler is the event queue of the simulation library: events are  *)
(* ordered by (time, insertion order).  The model keeps, for every pending *)
(* event, the delay that remains until it is due; popping the head event   *)
(* advances the clock by its delay.  One action of the model is one        *)
(* resumption of a process (from the popped event to its next yield).      *)
(***************************************************************************)
EXTENDS Integers, Sequences, FiniteSets

\* ------------------------------------------------------------- bounds
\* Largest packet size drawn by a source (bytes).
MaxSize == 3
\* Largest inter-arrival time drawn by a source.
MaxGap == 2
\* Largest backoff delay drawn after a collision (0 is a possible draw).
MaxBackoff == 2
\* Number of packets after which the sources stop generating.
MaxPackets == 3
\* Run horizon of the bounded runs (env.run(until=Horizon)).
Horizon == 6
\* Finite buffer capacity tried besides 0 and "no limit" (bytes).
CapBytes == 2
\* Value up to which the clock and the counters are recorded in the runs
\* that have no horizon.
MaxCount == 1

Sources == {"src1", "src2"}
Servers == {"qs1", "qs2"}

\* An optional number (the horizon, the buffer capacity) is the set of its
\* values: empty when it is None, which means no horizon and no limit.
NoHorizon == {}
NoLimit == {}
\* None as a destination, and as the packet a server's loop holds.
None == "None"
NoPacket == <<"None", 0>>
\* The entity a server forwards to when a destination is attached.
Sink == "sink"

\* The draws of the size and inter-arrival distributions (the smallest and
\* the largest value) and of the backoff distribution (every value).
Sizes == {1, MaxSize}
Gaps == {1, MaxGap}
Backoffs == 0..MaxBackoff

\* src1.attach(qs1); src2.attach(qs2)
ServerOf(src) == IF src = "src1" THEN "qs1" ELSE "qs2"

VARIABLES
  now,              \* env.now
  until,            \* horizon given to env.run, in half time units
  service_rate,     \* QueuedServer.service_rate (the same for every server)
  queue,            \* pending events, earliest first: [d, k, p]
  spc,              \* Source: position of its run loop
  src_count,        \* Source.packet_count
  attached,         \* Source.destination (None or a server)
  packets,          \* the Packet objects created so far, by key <<source, id>>
  pc,               \* QueuedServer: position of its run loop
  cur,              \* QueuedServer.run: packet / waiting_packet
  got,              \* value of the server's triggered buffer.get() event
  getPending,       \* the server's buffer.get() waits in the store's get queue
  buffer,           \* QueuedServer.buffer.items
  buffer_max_size,  \* QueuedServer.buffer_max_size
  buffer_size,      \* QueuedServer.buffer_size
  collision,        \* QueuedServer.collision
  packet_count,     \* QueuedServer.packet_count
  packets_drop,     \* QueuedServer.packets_drop
  packet_list,      \* QueuedServer.packet_list
  destination,      \* QueuedServer.destination
  busy,             \* QueuedServer.busy
  chCollision,      \* Channel.collision
  senders_list,     \* Channel.senders_list
  chBusy,           \* Channel.busy
  chLog,            \* Channel.packet_list
  sinkLog,          \* packets handed to the destination by destination.put
  mpc,              \* QueuedServerMonitor: position of its run loop
  count_bytes,      \* QueuedServerMonitor.count_bytes
  sizes,            \* QueuedServerMonitor.sizes
  time_count,       \* QueuedServerMonitor.time_count
  admitted,         \* history: packets accepted by put, per server, in order
  rejected,         \* history: packets refused by put
  stamps,           \* history: number of assignments to packet.output_timestamp
  registered        \* history: servers that have called add_sender

vars == <<now, until, service_rate, queue, spc, src_count, attached, packets, pc, cur, got,
          getPending, buffer, buffer_max_size, buffer_size, collision,
          packet_count, packets_drop, packet_list, destination, busy,
          chCollision, senders_list, chBusy, chLog, sinkLog, mpc,
          count_bytes, sizes, time_count, admitted, rejected, stamps,
          registered>>

\* ---------------------------------------------------------- scheduler
Min(a, b) == IF a < b THEN a ELSE b

\* Without a horizon the clock and the counters grow without limit: they
\* are then recorded up to MaxCount (the order of the events does not
\* depend on them, the queue holds delays).  Under a horizon the recorded
\* value is the exact one.
Capped(n) == IF until = NoHorizon THEN Min(n, MaxCount) ELSE n

\* env.schedule(event, delay): the event is due after every event that is
\* due no later (ties resume in insertion order).
Schedule(q, k, p, delay) ==
  LET n == Cardinality({i \in 1..Len(q) : q[i].d <= delay})
  IN  SubSeq(q, 1, n) \o <<[d |-> delay, k |-> k, p |-> p]>>
        \o SubSeq(q, n + 1, Len(q))

\* env.step: the event popped next, and the events left with the delays
\* that remain once the clock has advanced to it.
Next_event == queue[1]
Rest == [i \in 1..(Len(queue) - 1) |->
           [queue[i + 1] EXCEPT !.d = @ - Next_event.d]]

\* The delays are whole numbers of time units and the horizon need not be
\* one: instants are compared with it in half time units.
HalfUnits(t) == t + t

\* Mutant of BeforeHorizon: an event due exactly at the horizon is processed.
UpToHorizon(delay) == \A u \in until : HalfUnits(now + delay) <= u

\* env.run(until): the stop event is urgent, so an event due exactly at the
\* horizon is never processed.
BeforeHorizon(delay) == \A u \in until : HalfUnits(now + delay) < u

\* env.step re-raises the exception of a process that failed: the run ends.
Running == \A s \in Servers : pc[s] # "fault"

\* The popped event resumes process p.
Resumes(p) ==
  /\ Running
  /\ queue # <<>>
  /\ BeforeHorizon(Next_event.d)
  /\ Next_event.k = "resume"
  /\ Next_event.p = p

\* packet.size / self.service_rate, in bytes per time unit
TxTime(size) == size \div service_rate

\* The yield of the transmission wait fails: the division raises
\* ZeroDivisionError for a rate of 0, env.timeout raises ValueError for a
\* negative delay.
TxFault(size) == service_rate = 0 \/ TxTime(size) < 0

\* ------------------------------------------------------------ channel
InSeq(x, s) == \E i \in 1..Len(s) : s[i] = x

\* list.remove(x): the first occurrence goes.
RemoveFirst(s, x) ==
  LET i == CHOOSE j \in 1..Len(s) :
             s[j] = x /\ \A k \in 1..(j - 1) : s[k] # x
  IN  SubSeq(s, 1, i - 1) \o SubSeq(s, i + 1, Len(s))

\* Mutant of broadcast_collision: only the newcomer is flagged.
broadcast_newcomer(list, coll) == [coll EXCEPT ![list[Len(list)]] = TRUE]

\* Channel.broadcast_collision over the senders in list
broadcast_collision(list, coll) ==
  [x \in Servers |-> IF InSeq(x, list) THEN TRUE ELSE coll[x]]

\* Channel.add_sender: the new senders_list
add_sender(list, sender) == Append(list, sender)

\* Mutant of add_sender_flags: the channel's collision switch is ignored.
add_sender_always_flags(list, sender, coll) ==
  IF Len(add_sender(list, sender)) > 1
    THEN broadcast_collision(add_sender(list, sender), coll)
    ELSE coll

\* Mutant of add_sender_flags: no collision is ever declared.
add_sender_never_flags(list, sender, coll) == coll

\* Channel.add_sender: the servers' collision flags once sender has joined
add_sender_flags(list, sender, coll) ==
  IF Len(add_sender(list, sender)) > 1 /\ chCollision
    THEN broadcast_collision(add_sender(list, sender), coll)
    ELSE coll

\* Mutant of remove_sender: the sender stays in the list.
remove_nothing(list, sender) == list

\* Channel.remove_sender: the new senders_list
remove_sender(list, sender) == RemoveFirst(list, sender)

\* Mutant of remove_sender_busy: the indicator is never cleared.
remove_sender_busy_stays(list, sender, b) == b

\* Channel.remove_sender: the busy indicator once sender has left
remove_sender_busy(list, sender, b) ==
  IF Len(remove_sender(list, sender)) = 0 THEN FALSE ELSE b

\* ------------------------------------------------------- QueuedServer
\* Mutant of Fits: the test forgets the size of the arriving packet.
FitsIgnoringPacket(max, size, psize) == \A m \in max : size <= m

\* QueuedServer.put: the admission test
Fits(max, size, psize) == \A m \in max : size + psize <= m

\* QueuedServer.put: the received counter after a put
put_count(n, fits) == n + 1

\* QueuedServer.put: the occupancy after a put
put_size(size, psize, fits) == IF fits THEN size + psize ELSE size

\* Mutant of StorePop: the store hands out its newest item.
StorePopNewest(items) ==
  <<items[Len(items)], SubSeq(items, 1, Len(items) - 1)>>

\* Mutant of StorePop: the item handed out stays in the store.
StorePopKeeps(items) == <<Head(items), items>>

\* Store (FIFO): the item a get takes, and the items left
StorePop(items) == <<Head(items), Tail(items)>>

\* Mutant of Voided: the collision flag is not looked at.
VoidedNever(s) == FALSE

\* QueuedServer.run, after the transmission wait: is this attempt void
Voided(s) == collision[s]

\* Mutant of clear_collision: the flag is left as it is.
clear_nothing(coll, s) == coll

\* QueuedServer.run, on a collision: self.collision = False
clear_collision(coll, s) == [coll EXCEPT ![s] = FALSE]

\* Mutant of RetryPacket: after the backoff the server takes the packet at
\* the head of its buffer when there is one.
RetryFromBuffer(s) == IF buffer[s] # <<>> THEN Head(buffer[s]) ELSE cur[s]

\* QueuedServer.run: the packet the server transmits after a backoff
\* (packet = waiting_packet)
RetryPacket(s) == cur[s]

\* Mutant of waiting_packet: the collided packet is not kept for a retry.
waiting_none(s) == NoPacket

\* QueuedServer.run, on a collision: waiting_packet = packet
waiting_packet(s) == cur[s]

\* Mutant of put_items: the packet is stored whatever the test says.
put_items_always(items, pk, fits) == Append(items, pk)

\* QueuedServer.put: the items of the FIFO after a put
put_items(items, pk, fits) == IF fits THEN Append(items, pk) ELSE items

\* QueuedServer.put(packet) on server s, for the packet of key pk and of
\* the given size: counters, occupancy and FIFO.
put(s, pk, size) ==
  LET fits == Fits(buffer_max_size[s], buffer_size[s], size)
  IN  /\ packet_count' = [packet_count EXCEPT
                            ![s] = Capped(put_count(@, fits))]
      /\ buffer_size' = [buffer_size EXCEPT ![s] = put_size(@, size, fits)]
      /\ buffer' = [buffer EXCEPT ![s] = put_items(@, pk, fits)]
      /\ admitted' = IF fits THEN [admitted EXCEPT ![s] = Append(@, pk)]
                             ELSE admitted
      /\ rejected' = IF fits THEN rejected ELSE rejected \cup {pk}

\* QueuedServer.put: self.buffer.put(packet) appends the item at once and
\* schedules the store's put event (processing it hands an item to a
\* waiting get); q is the event queue when put is called.
put_events(s, size, q) ==
  IF Fits(buffer_max_size[s], buffer_size[s], size)
    THEN Schedule(q, "put", s, 0)
    ELSE q

\* -------------------------------------------------------------- Source
\* A Packet as its constructor leaves it.
Packet(id, size, t) ==
  [id |-> id, size |-> size, generation_timestamp |-> t,
   output_timestamp |-> 0]

\* Source.run, started: yield timeout(init_delay), init_delay = 0.
SourceStart(src) ==
  /\ Resumes(src)
  /\ spc[src] = "init"
  /\ now' = Capped(now + Next_event.d)
  /\ spc' = [spc EXCEPT ![src] = "initdelay"]
  /\ queue' = Schedule(Rest, "resume", src, 0)
  /\ UNCHANGED <<until, service_rate, src_count, attached, packets, pc, cur, got,
                 getPending, buffer, buffer_max_size, buffer_size, collision,
                 packet_count, packets_drop, packet_list, destination, busy,
                 chCollision, senders_list, chBusy, chLog, sinkLog, admitted,
                 rejected, stamps, registered, mpc, count_bytes, sizes,
                 time_count>>

\* Source.run, after the initial delay: yield timeout(gen_distribution()).
SourceFirstWait(src) ==
  /\ Resumes(src)
  /\ spc[src] = "initdelay"
  /\ now' = Capped(now + Next_event.d)
  /\ spc' = [spc EXCEPT ![src] = "wait"]
  /\ \E g \in Gaps : queue' = Schedule(Rest, "resume", src, g)
  /\ UNCHANGED <<until, service_rate, src_count, attached, packets, pc, cur, got,
                 getPending, buffer, buffer_max_size, buffer_size, collision,
                 packet_count, packets_drop, packet_list, destination, busy,
                 chCollision, senders_list, chBusy, chLog, sinkLog, admitted,
                 rejected, stamps, registered, mpc, count_bytes, sizes,
                 time_count>>

\* Number of packets generated so far, over all sources.
Generated == src_count["src1"] + src_count["src2"]

\* Source.run, after an inter-arrival wait: build the packet, hand it to
\* the destination, count it, wait again.  Generation stops once MaxPackets
\* packets exist: a source resumed after that generates nothing more.
SourceEmit(src) ==
  /\ Resumes(src)
  /\ spc[src] = "wait"
  /\ Generated < MaxPackets
  /\ now' = Capped(now + Next_event.d)
  /\ \E size \in Sizes, g \in Gaps :
       LET pk == <<src, src_count[src]>>
           after(q) == Schedule(q, "resume", src, g)
       IN  /\ packets' = [k \in DOMAIN packets \cup {pk} |->
                            IF k = pk THEN Packet(src_count[src], size, now')
                                      ELSE packets[k]]
           /\ stamps' = [k \in DOMAIN packets \cup {pk} |->
                           IF k = pk THEN 0 ELSE stamps[k]]
           /\ src_count' = [src_count EXCEPT ![src] = @ + 1]
           /\ IF attached[src] # None
                THEN /\ put(attached[src], pk, size)
                     /\ queue' = after(put_events(attached[src], size, Rest))
                ELSE /\ queue' = after(Rest)
                     /\ UNCHANGED <<packet_count, buffer_size, buffer,
                                    admitted, rejected>>
  /\ UNCHANGED <<until, service_rate, spc, attached, pc, cur, got, getPending,
                 buffer_max_size, collision, packets_drop, packet_list,
                 destination, busy, chCollision, senders_list, chBusy, chLog,
                 sinkLog, registered, mpc, count_bytes, sizes, time_count>>

\* The bound on generation: the source is resumed and stops.
SourceHalt(src) ==
  /\ Resumes(src)
  /\ spc[src] = "wait"
  /\ Generated >= MaxPackets
  /\ now' = Capped(now + Next_event.d)
  /\ spc' = [spc EXCEPT ![src] = "halt"]
  /\ queue' = Rest
  /\ UNCHANGED <<until, service_rate, src_count, attached, packets, pc, cur, got,
                 getPending, buffer, buffer_max_size, buffer_size, collision,
                 packet_count, packets_drop, packet_list, destination, busy,
                 chCollision, senders_list, chBusy, chLog, sinkLog, admitted,
                 rejected, stamps, registered, mpc, count_bytes, sizes,
                 time_count>>

\* ------------------------------------------------- QueuedServer.run
\* packet = yield self.buffer.get(): with an item in the store the get
\* event is triggered at once (the server resumes when it is processed),
\* otherwise the get waits for a put.  q is the event queue at the call.
StoreGet(s, q) ==
  IF buffer[s] # <<>>
    THEN /\ got' = [got EXCEPT ![s] = StorePop(buffer[s])[1]]
         /\ buffer' = [buffer EXCEPT ![s] = StorePop(@)[2]]
         /\ getPending' = getPending
         /\ queue' = Schedule(q, "resume", s, 0)
    ELSE /\ got' = got
         /\ buffer' = buffer
         /\ getPending' = [getPending EXCEPT ![s] = TRUE]
         /\ queue' = q

\* self.channel.add_sender(self); yield timeout(packet.size/service_rate):
\* the server is registered, then waits for the transmission time or fails.
Transmit(s, pk, q) ==
  /\ senders_list' = add_sender(senders_list, s)
  /\ chBusy' = TRUE
  /\ collision' = add_sender_flags(senders_list, s, collision)
  /\ registered' = registered \cup {s}
  /\ IF TxFault(packets[pk].size)
       THEN /\ pc' = [pc EXCEPT ![s] = "fault"]
            /\ queue' = q
       ELSE /\ pc' = [pc EXCEPT ![s] = "tx"]
            /\ queue' = Schedule(q, "resume", s, TxTime(packets[pk].size))

\* QueuedServer.run, started: the loop's first buffer.get().
ServerStart(s) ==
  /\ Resumes(s)
  /\ pc[s] = "init"
  /\ now' = Capped(now + Next_event.d)
  /\ pc' = [pc EXCEPT ![s] = "get"]
  /\ StoreGet(s, Rest)
  /\ UNCHANGED <<until, service_rate, spc, src_count, attached, packets, cur,
                 buffer_max_size, buffer_size, collision, packet_count,
                 packets_drop, packet_list, destination, busy, chCollision,
                 senders_list, chBusy, chLog, sinkLog, admitted, rejected,
                 stamps, registered, mpc, count_bytes, sizes, time_count>>

\* The store's put event is processed: a waiting get takes the first item
\* and its event is triggered.
StorePutEvent(s) ==
  /\ Running
  /\ queue # <<>>
  /\ BeforeHorizon(Next_event.d)
  /\ Next_event.k = "put"
  /\ Next_event.p = s
  /\ now' = Capped(now + Next_event.d)
  /\ IF getPending[s] /\ buffer[s] # <<>>
       THEN /\ got' = [got EXCEPT ![s] = StorePop(buffer[s])[1]]
            /\ buffer' = [buffer EXCEPT ![s] = StorePop(@)[2]]
            /\ getPending' = [getPending EXCEPT ![s] = FALSE]
            /\ queue' = Schedule(Rest, "resume", s, 0)
       ELSE /\ queue' = Rest
            /\ UNCHANGED <<got, buffer, getPending>>
  /\ UNCHANGED <<until, service_rate, spc, src_count, attached, packets, pc, cur,
                 buffer_max_size, buffer_size, collision, packet_count,
                 packets_drop, packet_list, destination, busy, chCollision,
                 senders_list, chBusy, chLog, sinkLog, admitted, rejected,
                 stamps, registered, mpc, count_bytes, sizes, time_count>>

\* The get event is processed: the server has its packet, registers on the
\* channel and waits for the transmission time.
ServerTransmit(s) ==
  /\ Resumes(s)
  /\ pc[s] = "get"
  /\ now' = Capped(now + Next_event.d)
  /\ cur' = [cur EXCEPT ![s] = got[s]]
  /\ got' = [got EXCEPT ![s] = NoPacket]
  /\ Transmit(s, got[s], Rest)
  /\ UNCHANGED <<until, service_rate, spc, src_count, attached, packets, getPending,
                 buffer, buffer_max_size, buffer_size, packet_count,
                 packets_drop, packet_list, destination, busy, chCollision,
                 chLog, sinkLog, admitted, rejected, stamps, mpc,
                 count_bytes, sizes, time_count>>

\* The transmission wait is over: deregister, stamp the packet, then either
\* deliver it and get the next one, or count the collision and back off.
ServerTxDone(s) ==
  /\ Resumes(s)
  /\ pc[s] = "tx"
  /\ now' = Capped(now + Next_event.d)
  /\ senders_list' = remove_sender(senders_list, s)
  /\ chBusy' = remove_sender_busy(senders_list, s, chBusy)
  /\ packets' = [packets EXCEPT ![cur[s]].output_timestamp = now']
  /\ stamps' = [stamps EXCEPT ![cur[s]] = Capped(@ + 1)]
  /\ packet_list' = IF destination[s] = None
                      THEN [packet_list EXCEPT ![s] = Append(@, cur[s])]
                      ELSE packet_list
  /\ IF ~Voided(s)
       THEN /\ sinkLog' = IF destination[s] # None
                            THEN Append(sinkLog, cur[s])
                            ELSE sinkLog
            /\ chLog' = Append(chLog, cur[s])
            /\ cur' = [cur EXCEPT ![s] = NoPacket]
            /\ pc' = [pc EXCEPT ![s] = "get"]
            /\ StoreGet(s, Rest)
            /\ UNCHANGED <<packets_drop, collision>>
       ELSE /\ packets_drop' = [packets_drop EXCEPT ![s] = Capped(@ + 1)]
            /\ collision' = clear_collision(collision, s)
            /\ pc' = [pc EXCEPT ![s] = "backoff"]
            /\ cur' = [cur EXCEPT ![s] = waiting_packet(s)]
            /\ \E d \in Backoffs : queue' = Schedule(Rest, "resume", s, d)
            /\ UNCHANGED <<sinkLog, chLog, got, buffer, getPending>>
  /\ UNCHANGED <<until, service_rate, spc, src_count, attached, buffer_max_size,
                 buffer_size, packet_count, destination, busy, chCollision,
                 admitted, rejected, registered, mpc, count_bytes, sizes,
                 time_count>>

\* The backoff wait is over: the waiting packet is transmitted again.
ServerRetry(s) ==
  /\ Resumes(s)
  /\ pc[s] = "backoff"
  /\ now' = Capped(now + Next_event.d)
  /\ cur' = [cur EXCEPT ![s] = RetryPacket(s)]
  /\ Transmit(s, RetryPacket(s), Rest)
  /\ UNCHANGED <<until, service_rate, spc, src_count, attached, packets, got, getPending,
                 buffer, buffer_max_size, buffer_size, packet_count,
                 packets_drop, packet_list, destination, busy, chCollision,
                 chLog, sinkLog, admitted, rejected, stamps, mpc,
                 count_bytes, sizes, time_count>>

\* ------------------------------------------------ QueuedServerMonitor
Monitor == "mon1"
\* qs1_monitor = QueuedServerMonitor(env, qs1, sample_distribution=lambda:1)
Observed == "qs1"
SampleInterval == 1

\* QueuedServerMonitor.run: the value of one sample
Sample(s) ==
  IF count_bytes THEN buffer_size[s]
                 ELSE Len(buffer[s]) + (IF busy[s] THEN 1 ELSE 0)

\* QueuedServerMonitor.run, started: yield timeout(sample_distribution()).
MonitorStart ==
  /\ Resumes(Monitor)
  /\ mpc = "init"
  /\ now' = Capped(now + Next_event.d)
  /\ mpc' = "wait"
  /\ queue' = Schedule(Rest, "resume", Monitor, SampleInterval)
  /\ UNCHANGED <<until, service_rate, spc, src_count, attached, packets, pc, cur, got,
                 getPending, buffer, buffer_max_size, buffer_size, collision,
                 packet_count, packets_drop, packet_list, destination, busy,
                 chCollision, senders_list, chBusy, chLog, sinkLog,
                 count_bytes, sizes, time_count, admitted, rejected, stamps,
                 registered>>

\* QueuedServerMonitor.run, after a sampling wait: count, sample, wait.
MonitorSample ==
  /\ Resumes(Monitor)
  /\ mpc = "wait"
  /\ now' = Capped(now + Next_event.d)
  /\ time_count' = time_count + 1
  /\ sizes' = Append(sizes, Sample(Observed))
  /\ queue' = Schedule(Rest, "resume", Monitor, SampleInterval)
  /\ UNCHANGED <<until, service_rate, spc, src_count, attached, packets, pc, cur, got,
                 getPending, buffer, buffer_max_size, buffer_size, collision,
                 packet_count, packets_drop, packet_list, destination, busy,
                 chCollision, senders_list, chBusy, chLog, sinkLog, mpc,
                 count_bytes, admitted, rejected, stamps, registered>>

\* ------------------------------------------------------ specification
\* env.process(self.run()): the start events of the processes, in creation
\* order.
Started(procs) ==
  [i \in 1..Len(procs) |-> [d |-> 0, k |-> "resume", p |-> procs[i]]]

\* The state once __main__ has built the entities, before env.run.
Start ==
  /\ now = 0
  /\ spc = [s \in Sources |-> "init"]
  /\ src_count = [s \in Sources |-> 0]
  /\ packets = << >>
  /\ pc = [s \in Servers |-> "init"]
  /\ cur = [s \in Servers |-> NoPacket]
  /\ got = [s \in Servers |-> NoPacket]
  /\ getPending = [s \in Servers |-> FALSE]
  /\ buffer = [s \in Servers |-> <<>>]
  /\ buffer_size = [s \in Servers |-> 0]
  /\ collision = [s \in Servers |-> FALSE]
  /\ packet_count = [s \in Servers |-> 0]
  /\ packets_drop = [s \in Servers |-> 0]
  /\ packet_list = [s \in Servers |-> <<>>]
  /\ busy = [s \in Servers |-> FALSE]
  /\ senders_list = <<>>
  /\ chBusy = FALSE
  /\ chLog = <<>>
  /\ sinkLog = <<>>
  /\ mpc = "init"
  /\ count_bytes = FALSE
  /\ sizes = <<>>
  /\ time_count = 0
  /\ admitted = [s \in Servers |-> <<>>]
  /\ rejected = {}
  /\ stamps = << >>
  /\ registered = {}

\* The configurations: collision detection on or off, no capacity limit or
\* a capacity of 0 or CapBytes, a destination attached to the servers or
\* none.  Each source is attached to its server.
Configured ==
  /\ chCollision \in BOOLEAN
  /\ \E c \in {NoLimit, {0}, {CapBytes}} :
       buffer_max_size = [s \in Servers |-> c]
  /\ \E d \in {None, Sink} : destination = [s \in Servers |-> d]
  /\ attached = [s \in Sources |-> ServerOf(s)]

\* Runs up to the horizon, with the monitor on qs1, and with both sources
\* or with the first source alone.
Init ==
  /\ Start
  /\ Configured
  /\ until = {HalfUnits(Horizon)}
  /\ service_rate = 1
  /\ \/ queue = Started(<<"src1", "src2", "qs1", "qs2", Monitor>>)
     \/ queue = Started(<<"src1", "qs1", "qs2", Monitor>>)

\* The sources, the servers and the store events.
Traffic ==
  \/ \E src \in Sources : SourceStart(src)
  \/ \E src \in Sources : SourceFirstWait(src)
  \/ \E src \in Sources : SourceEmit(src)
  \/ \E src \in Sources : SourceHalt(src)
  \/ \E s \in Servers : ServerStart(s)
  \/ \E s \in Servers : StorePutEvent(s)
  \/ \E s \in Servers : ServerTransmit(s)
  \/ \E s \in Servers : ServerTxDone(s)
  \/ \E s \in Servers : ServerRetry(s)

Next ==
  \/ Traffic
  \/ MonitorStart
  \/ MonitorSample

Spec == Init /\ [][Next]_vars

\* Two sources through two servers on one collision-enabled channel, run
\* without a horizon and without a monitor.
InitUnbounded ==
  /\ Start
  /\ chCollision = TRUE
  /\ buffer_max_size = [s \in Servers |-> NoLimit]
  /\ destination = [s \in Servers |-> Sink]
  /\ attached = [s \in Sources |-> ServerOf(s)]
  /\ until = NoHorizon
  /\ service_rate = 1
  /\ queue = Started(<<"src1", "src2", "qs1", "qs2">>)

\* env.run processes the earliest pending event as long as there is one.
LiveSpec == InitUnbounded /\ [][Traffic]_vars /\ WF_vars(Traffic)

\* QueuedServer.__init__ stores the service rate it is given, whatever it
\* is: a positive rate, zero, a negative one.
Rates == {-1, 0, 1}

\* Runs of the servers as the constructor accepts them.
InitAnyRate ==
  /\ Start
  /\ Configured
  /\ until = {HalfUnits(Horizon)}
  /\ service_rate \in Rates
  /\ queue = Started(<<"src1", "src2", "qs1", "qs2", Monitor>>)

SetupSpec == InitAnyRate /\ [][Next]_vars

\* Scenario D: the monitor samples every time unit, over a horizon of
\* Horizon time units or of Horizon and a half, next to two sources and two
\* servers on the collision-enabled channel.
InitScenarioD ==
  /\ Start
  /\ chCollision = TRUE
  /\ buffer_max_size = [s \in Servers |-> NoLimit]
  /\ destination = [s \in Servers |-> None]
  /\ attached = [s \in Sources |-> ServerOf(s)]
  /\ until \in {{HalfUnits(Horizon)}, {HalfUnits(Horizon) + 1}}
  /\ service_rate = 1
  /\ queue = Started(<<"src1", "src2", "qs1", "qs2", Monitor>>)

ScenarioD == InitScenarioD /\ [][Next]_vars

\* ------------------------------------------------------------- claims
Last(s) == s[Len(s)]
Members(list) == {list[i] : i \in 1..Len(list)}
\* The packets of log that came through server s, in the order of log.
Through(log, s) == SelectSeq(log, LAMBDA k : ServerOf(k[1]) = s)
IsPrefix(a, b) == Len(a) <= Len(b) /\ SubSeq(b, 1, Len(a)) = a

\* C1: with a buffer capacity configured, buffer_size never exceeds it, and
\* a step that puts a packet into the FIFO is one where the occupancy
\* before the put plus the size of that packet is within the capacity.
C1_Admission ==
  /\ [](\A s \in Servers : \A m \in buffer_max_size[s] : buffer_size[s] <= m)
  /\ [][\A s \in Servers :
          Len(buffer'[s]) > Len(buffer[s]) =>
            \A m \in buffer_max_size[s] :
              buffer_size[s] + packets'[Last(buffer'[s])].size <= m]_vars

\* C1 witness: a server with a finite capacity has admitted a packet and
\* has refused another one.
C1_Witness ==
  \E s \in Servers :
    /\ buffer_max_size[s] = {CapBytes}
    /\ admitted[s] # <<>>
    /\ \E pk \in rejected : ServerOf(pk[1]) = s

\* The step is a put on server s that refuses the packet.
RejectedPut(s) == \E pk \in rejected' \ rejected : ServerOf(pk[1]) = s

\* C2: a put that would exceed the capacity leaves the occupancy unchanged,
\* increments the rejection counter and does not increment packet_count
\* (so with capacity 0 packet_count and the occupancy stay 0).
C2_RejectionCounted ==
  [][\A s \in Servers :
       RejectedPut(s) =>
         /\ buffer_size'[s] = buffer_size[s]
         /\ packets_drop'[s] = packets_drop[s] + 1
         /\ packet_count'[s] = packet_count[s]]_vars

\* The step is server s completing a transmission.
Completes(s) == pc[s] = "tx" /\ pc'[s] # "tx"

\* C3: on a collision-enabled channel, a step in which add_sender makes the
\* active set larger than one leaves every member flagged; a flag set
\* during a transmission stays until that transmission completes; and a
\* server that completes a transmission with its flag set counts a drop,
\* while the delivered log and the destination get nothing.
C3_CollisionVoids ==
  [][/\ (chCollision /\ Len(senders_list') > Len(senders_list)
           /\ Len(senders_list') > 1) =>
          \A x \in Members(senders_list') : collision'[x]
     /\ \A s \in Servers :
          /\ (collision[s] /\ pc[s] = "tx" /\ ~Completes(s)) => collision'[s]
          /\ (collision[s] /\ Completes(s)) =>
               /\ packets_drop'[s] = packets_drop[s] + 1
               /\ chLog' = chLog
               /\ sinkLog' = sinkLog]_vars

\* C3 witness: with a destination attached, both servers have had a
\* transmission voided by a collision.
C3_Witness ==
  /\ chCollision
  /\ \A s \in Servers : packets_drop[s] > 0 /\ destination[s] = Sink

\* C4: no step changes the identifier, the size or the generation timestamp
\* of a packet; a server whose transmission collides keeps that packet, and
\* the packet it transmits after the backoff is that same packet.
C4_SamePacketRetried ==
  [][/\ \A pk \in DOMAIN packets :
          /\ packets'[pk].id = packets[pk].id
          /\ packets'[pk].size = packets[pk].size
          /\ packets'[pk].generation_timestamp
               = packets[pk].generation_timestamp
     /\ \A s \in Servers :
          /\ (Completes(s) /\ pc'[s] = "backoff") =>
               cur'[s] = cur[s] /\ cur[s] \in DOMAIN packets
          /\ pc[s] = "backoff" =>
               /\ cur'[s] = cur[s]
               /\ pc'[s] \in {"backoff", "tx"}]_vars

\* C4 witness: a packet that collided at least twice has been delivered.
C4_Witness ==
  \E pk \in DOMAIN packets : stamps[pk] >= 3 /\ pk \in Members(chLog)

\* C5: without a horizon, a server whose transmission was voided (it waits
\* out its backoff) is eventually transmitting again; as long as it waits
\* it keeps its packet and takes none out of its buffer; and the step that
\* ends the wait registers it on the channel with that same packet.
C5_RetryFollows ==
  /\ \A s \in Servers : pc[s] = "backoff" ~> pc[s] = "tx"
  /\ [][\A s \in Servers :
          pc[s] = "backoff" =>
            /\ got'[s] = got[s]
            /\ IsPrefix(buffer[s], buffer'[s])
            /\ \/ pc'[s] = "backoff" /\ cur'[s] = cur[s]
               \/ /\ pc'[s] = "tx"
                  /\ cur'[s] = cur[s]
                  /\ s \notin Members(senders_list)
                  /\ s \in Members(senders_list')]_vars

\* C5 witness: a server whose transmission was voided is transmitting the
\* same packet again while another packet waits in its buffer.
C5_Witness ==
  \E s \in Servers :
    /\ pc[s] = "tx"
    /\ packets_drop[s] > 0
    /\ stamps[cur[s]] > 0
    /\ buffer[s] # <<>>

\* The first transmissions of the two servers overlap.
FirstOverlap ==
  /\ \A s \in Servers : pc[s] = "tx" /\ packets_drop[s] = 0
  /\ Members(senders_list) = Servers
  /\ chLog = <<>>

Delivered(pk) == pk \in Members(chLog) /\ stamps[pk] > 0

\* C6 as claimed: once the first transmissions of the two servers overlap
\* on the collision-enabled channel, both drop counters become positive
\* and the two collided packets are eventually in the delivered log,
\* whatever backoff delays are drawn.
C6_BothDelivered ==
  FirstOverlap ~>
    /\ \A s \in Servers : packets_drop[s] > 0
    /\ Delivered(<<"src1", 0>>)
    /\ Delivered(<<"src2", 0>>)

\* C6 amended: once the first transmissions overlap, both drop counters
\* become positive; and until it is delivered, the first packet of a server
\* that has collided is the packet that server holds (transmitting it or
\* waiting out a backoff), with no later packet of the server delivered.
C6_BothDropped ==
  /\ FirstOverlap ~> (\A s \in Servers : packets_drop[s] > 0)
  /\ [](\A src \in Sources :
          (packets_drop[ServerOf(src)] > 0 /\ ~Delivered(<<src, 0>>)) =>
             /\ cur[ServerOf(src)] = <<src, 0>>
             /\ pc[ServerOf(src)] \in {"tx", "backoff"}
             /\ Through(chLog, ServerOf(src)) = <<>>)

\* C6 witness: both servers have collided and both collided packets have
\* been delivered.
C6_Witness ==
  /\ \A s \in Servers : packets_drop[s] > 0
  /\ Delivered(<<"src1", 0>>)
  /\ Delivered(<<"src2", 0>>)
  /\ \A s \in Servers : pc[s] = "get"

\* C7: the output timestamp of a packet is assigned at most once, and not
\* before the packet is delivered.
C7_StampedOnce ==
  \A pk \in DOMAIN packets :
    /\ stamps[pk] <= 1
    /\ stamps[pk] = 1 => pk \in Members(chLog)

\* C8: for a server none of whose transmissions has collided, the packets
\* in the delivered log, and those handed to the destination, are the
\* first packets that put admitted, in the order of admission.
C8_Fifo ==
  \A s \in Servers :
    packets_drop[s] = 0 =>
      /\ IsPrefix(Through(chLog, s), admitted[s])
      /\ destination[s] = Sink => IsPrefix(Through(sinkLog, s), admitted[s])

\* C8 witness: a server without collisions and with a destination has
\* forwarded two packets, and its third packet was admitted while the
\* first was still being transmitted (two packets waited in the buffer).
C8_Witness ==
  \E s \in Servers :
    /\ packets_drop[s] = 0
    /\ destination[s] = Sink
    /\ Len(Through(sinkLog, s)) >= 2
    /\ Len(admitted[s]) >= 3
    /\ packets[admitted[s][3]].generation_timestamp
         < packets[admitted[s][1]].output_timestamp

\* C9: with collision detection disabled, no server's drop counter leaves
\* zero and no collision flag is set.
C9_NoDetectionNoDrop ==
  ~chCollision =>
    \A s \in Servers : packets_drop[s] = 0 /\ ~collision[s]

\* C9 witness: with collision detection disabled, both servers are
\* transmitting at once.
C9_Witness ==
  /\ ~chCollision
  /\ Members(senders_list) = Servers
  /\ Len(senders_list) = 2

\* C10: as long as one server only has registered on the collision-enabled
\* channel, the active set has at most one member, no collision flag is
\* set and no drop is counted.
C10_SingleSender ==
  (chCollision /\ Cardinality(registered) <= 1) =>
    /\ Len(senders_list) <= 1
    /\ \A s \in Servers : ~collision[s] /\ packets_drop[s] = 0

\* C10 witness: the only server that ever registered transmits a packet
\* that was generated before its previous packet was delivered
\* (back-to-back transmissions).
C10_Witness ==
  /\ chCollision
  /\ registered = {"qs1"}
  /\ pc["qs1"] = "tx"
  /\ chLog # <<>>
  /\ packets[cur["qs1"]].generation_timestamp
       < packets[Last(chLog)].output_timestamp
  /\ Generated = MaxPackets

\* The step is a put by source src, and the size of its packet added to
\* the occupancy of the server exceeds the capacity of the server.
Overflows(src) ==
  /\ src_count'[src] > src_count[src]
  /\ \E m \in buffer_max_size[attached[src]] :
       buffer_size[attached[src]] + packets'[<<src, src_count[src]>>].size > m

\* Everywhere a server or the channel can hold the packet pk.
Holders(pk) ==
  {s \in Servers : InSeq(pk, buffer[s]) \/ got[s] = pk \/ cur[s] = pk
                     \/ InSeq(pk, packet_list[s])}

\* C11: a put that would exceed the capacity leaves the FIFO, the packet
\* the server is handed and the active-sender set as they are and schedules
\* nothing for the server; and a packet so rejected is never in a FIFO,
\* never the packet a server holds or transmits, never in a server's sink
\* record, in the delivered log or at the destination.
C11_RejectedNeverSent ==
  /\ [](\A pk \in rejected :
          /\ Holders(pk) = {}
          /\ ~InSeq(pk, chLog)
          /\ ~InSeq(pk, sinkLog))
  /\ [][\A src \in Sources :
          Overflows(src) =>
            /\ <<src, src_count[src]>> \in rejected'
            /\ buffer' = buffer
            /\ got' = got
            /\ cur' = cur
            /\ senders_list' = senders_list
            /\ \A i \in 1..Len(queue') : queue'[i].p # attached[src]
                 \/ \E j \in 1..Len(queue) :
                      queue[j].p = queue'[i].p /\ queue[j].k = queue'[i].k]_vars

\* C11 witness: a server has refused a packet and has afterwards delivered
\* a packet that was generated later.
C11_Witness ==
  \E pk \in rejected :
    \E i \in 1..Len(chLog) :
      /\ chLog[i][1] = pk[1]
      /\ chLog[i][2] > pk[2]

\* C12: in packet-count mode, the value a sampling step records is the
\* number of packets in the FIFO of the observed server, plus one when that
\* server is inside a transmission wait.
C12_SampleCountsService ==
  [][(Len(sizes') > Len(sizes) /\ ~count_bytes) =>
       Last(sizes') = Len(buffer[Observed])
                        + (IF pc[Observed] = "tx" THEN 1 ELSE 0)]_vars

\* env.run has returned: a process failed, or no event is left before the
\* horizon.
Stopped ==
  \/ ~Running
  \/ queue = <<>>
  \/ ~BeforeHorizon(Next_event.d)

\* For a horizon u in half time units: the largest whole number of time
\* units not above it, and the smallest not below it.
Floor(u) == u \div 2
Ceiling(u) == (u + 1) \div 2

\* C13 as claimed: when the run stops, the monitor has recorded floor(H)
\* samples.
C13_FloorSamples ==
  Stopped => \A u \in until : time_count = Floor(u) /\ Len(sizes) = Floor(u)

\* C13 amended: when the run stops, the monitor has recorded one sample for
\* every whole instant before the horizon, the one at the horizon excluded:
\* H - 1 for a whole H, floor(H) otherwise.
C13_SamplesBeforeHorizon ==
  Stopped =>
    \A u \in until : time_count = Ceiling(u) - 1 /\ Len(sizes) = Ceiling(u) - 1

\* C13 witness: the run over a whole horizon has stopped, with a sample of
\* the monitor as the event left for the horizon.
C13_Witness ==
  /\ Stopped
  /\ until = {HalfUnits(Horizon)}
  /\ time_count > 0
  /\ \E i \in 1..Len(queue) :
       queue[i].p = Monitor /\ HalfUnits(now + queue[i].d) = HalfUnits(Horizon)

\* C14: the sink record of a server without a destination holds exactly the
\* packets that server has delivered, in the order of delivery, each once.
C14_SinkRecordDelivered ==
  \A s \in Servers :
    destination[s] = None => packet_list[s] = Through(chLog, s)

\* C15: a run that the constructors let start raises no fault from the
\* service rate it was configured with.
C15_FailsAtSetup == \A s \in Servers : pc[s] # "fault"

Occurrences(list, x) == Cardinality({i \in 1..Len(list) : list[i] = x})

\* C16: a server is in the active-sender set at most once, it is in the set
\* exactly while it is inside a transmission wait, and the channel's busy
\* indicator is true exactly when the set is not empty.
C16_ActiveSet ==
  /\ \A s \in Servers :
       /\ Occurrences(senders_list, s) <= 1
       /\ InSeq(s, senders_list) <=> pc[s] = "tx"
  /\ chBusy <=> senders_list # <<>>

\* C16 witness: the channel is idle again after both servers have been
\* transmitting on it at once.
C16_Witness ==
  /\ ~chBusy
  /\ senders_list = <<>>
  /\ registered = Servers
  /\ \A s \in Servers : packets_drop[s] > 0

\* Server s is inside a transmission wait that ends at the instant of this
\* step, by an event other than the one this step processes.
EndsNow(s) ==
  /\ pc[s] = "tx"
  /\ \E i \in 2..Len(queue) :
       queue[i].p = s /\ queue[i].k = "resume" /\ queue[i].d = Next_event.d

\* Server t starts a transmission at the instant of this step, by an event
\* other than the one this step processes: its backoff is over, or its get
\* has a packet, or its get waits and the put event of its store is due.
StartsNow(t) ==
  \E i \in 2..Len(queue) :
    /\ queue[i].p = t
    /\ queue[i].d = Next_event.d
    /\ \/ queue[i].k = "resume" /\ pc[t] = "backoff"
       \/ queue[i].k = "resume" /\ pc[t] = "get" /\ got[t] # NoPacket
       \/ queue[i].k = "put" /\ pc[t] = "get" /\ getPending[t]
            /\ buffer[t] # <<>>

\* The step is server t registering on the channel.
Registers(t) == ~InSeq(t, senders_list) /\ InSeq(t, senders_list')

\* The step is server s completing a transmission as a collided one.
Drops(s) ==
  /\ Completes(s)
  /\ pc'[s] = "backoff"
  /\ packets_drop'[s] = packets_drop[s] + 1
  /\ chLog' = chLog
  /\ sinkLog' = sinkLog

\* C17 as claimed: on the collision-enabled channel, a server whose
\* transmission ends at the instant at which the other server starts one
\* is collided, whichever of the two events is processed first: when the
\* other server registers first, it is flagged (and drops when it
\* completes); when it completes first, it drops.
C17_TieCollides ==
  [][chCollision =>
       \A s, t \in Servers :
         s # t =>
           /\ (Registers(t) /\ EndsNow(s)) => collision'[s]
           /\ (Completes(s) /\ collision[s]) => Drops(s)
           /\ (Completes(s) /\ StartsNow(t)) => Drops(s)]_vars

\* C17 amended: the order of the two events decides.  When the other
\* server registers first, the ending server is flagged and drops when it
\* completes; when the ending server completes first, it drops only if an
\* earlier overlap had flagged it, and otherwise delivers its packet.
C17_TieByOrder ==
  [][chCollision =>
       \A s, t \in Servers :
         s # t =>
           /\ (Registers(t) /\ EndsNow(s)) => collision'[s]
           /\ (Completes(s) /\ collision[s]) => Drops(s)
           /\ (Completes(s) /\ StartsNow(t) /\ ~collision[s]) =>
                /\ pc'[s] = "get"
                /\ packets_drop'[s] = packets_drop[s]
                /\ chLog' = Append(chLog, cur[s])
                /\ ~collision'[s]]_vars

\* C17 witness: on the collision-enabled channel two servers have each
\* delivered a packet at its first attempt, the second one having started
\* its transmission at the instant the first one ended.
C17_Witness ==
  /\ chCollision
  /\ \E i, j \in 1..Len(chLog) :
       /\ ServerOf(chLog[i][1]) # ServerOf(chLog[j][1])
       /\ stamps[chLog[i]] = 1
       /\ stamps[chLog[j]] = 1
       /\ packets[chLog[i]].output_timestamp
            = packets[chLog[j]].output_timestamp
                - TxTime(packets[chLog[j]].size)

\* The sizes of the packets in items, added up.
RECURSIVE Bytes(_)
Bytes(items) ==
  IF items = <<>> THEN 0
                  ELSE packets[Head(items)].size + Bytes(Tail(items))

\* C18: the byte occupancy of a server is the sum of the sizes of the
\* packets in its FIFO.
C18_OccupancyIsBufferBytes ==
  \A s \in Servers : buffer_size[s] = Bytes(buffer[s])

\* The number of places that hold the packet pk admitted by server s: the
\* FIFO of s, the service of s, the delivered log.
Places(s, pk) ==
  Occurrences(buffer[s], pk)
    + (IF (got[s] = pk /\ pc[s] = "get")
            \/ (cur[s] = pk /\ pc[s] \in {"tx", "backoff"})
         THEN 1 ELSE 0)
    + Occurrences(chLog, pk)

\* C19: every packet a server has admitted is in exactly one place: the
\* FIFO of that server, its service, or the delivered log (once).
C19_Conservation ==
  \A s \in Servers :
    \A i \in 1..Len(admitted[s]) : Places(s, admitted[s][i]) = 1

\* C19 witness: at once, a packet is in the delivered log, a collided one
\* waits out a backoff at its server, and another waits in the FIFO of
\* that server.
C19_Witness ==
  /\ chLog # <<>>
  /\ \E s \in Servers : pc[s] = "backoff" /\ buffer[s] # <<>>

\* C20: a server's collision flag is set only while the server is in the
\* active-sender set, inside a transmission wait; and a server that
\* registers is flagged at that step only if it is not alone in the set.
C20_FlagOnlyWhileRegistered ==
  /\ [](\A s \in Servers :
          collision[s] => InSeq(s, senders_list) /\ pc[s] = "tx")
  /\ [][\A s \in Servers :
          (Registers(s) /\ collision'[s]) => Len(senders_list') > 1]_vars

\* C20 witness: a server whose earlier attempt collided is transmitting
\* again, alone on the channel and not flagged.
C20_Witness ==
  \E s \in Servers :
    /\ pc[s] = "tx"
    /\ packets_drop[s] > 0
    /\ ~collision[s]
    /\ senders_list = <<s>>

====
